---- MODULE Spec2Model ----
(***************************************************************************)
(* Model of chimerascan/pipeline/find_discordant_reads.py: the multimap    *)
(* counter, the reference/cluster binner, the pair classifier and the      *)
(* per-fragment dispatch loop of find_discordant_fragments.                *)
(*                                                                         *)
(* Python lists are sequences, tuples are sequences, dictionaries are      *)
(* functions whose iteration order is an explicit argument.  A function    *)
(* that mutates its arguments returns the mutated values next to its       *)
(* result.                                                                 *)
(***************************************************************************)
EXTENDS Integers, Sequences, FiniteSets, TLC

\* ------------------------------------------------------------------ bounds
\* most alignments of a fragment (both mates together)
MaxAlignments == 4
\* most alignments of the single mate of the counting specification
MaxReads == 3
\* largest start position of an alignment within its transcript
MaxPos == 1

\* ------------------------------------------------------- imported constants
DISCORDANT_TAG_NAME == "XD"
ORIENTATION_TAG == "XO"
ORIENTATION_5P == "5P"
ORIENTATION_3P == "3P"
CONCORDANT_TX == "CONCORDANT_TX"
DISCORDANT_STRAND_TX == "DISCORDANT_STRAND_TX"
CONCORDANT_GENE == "CONCORDANT_GENE"
DISCORDANT_STRAND_GENE == "DISCORDANT_STRAND_GENE"
DISCORDANT_GENE == "DISCORDANT_GENE"

\* library types: the two leading letters give the expected mate strands
LibraryTypes == {"fr-unstranded", "ff-unstranded"}

\* LibraryTypes.same_strand: both mates are expected on the same strand
same_strand_of(library_type) == library_type = "ff-unstranded"

\* get_orientation: for an unstranded library, 5' or 3' by the strand of the
\* alignment
get_orientation(r, library_type) ==
    IF r.is_reverse THEN ORIENTATION_3P ELSE ORIENTATION_5P

\* --------------------------------------------------------- lookup tables
\* transcripts 1 and 2 are isoforms of one gene (cluster), transcript 3 is
\* another gene on the opposite genomic strand over the same interval
Tids == {1, 2, 3}

\* build_tid_transcript_map: tid -> transcript (its cluster id)
tid_tx_map ==
    (1 :> [cluster_id |-> "g1"]) @@
    (2 :> [cluster_id |-> "g1"]) @@
    (3 :> [cluster_id |-> "g2"])

\* build_tid_transcript_genome_map: tid -> (chromosome, strand, exon interval);
\* each transcript is one exon just long enough for a read at MaxPos
tid_tx_genome_map ==
    (1 :> [rname |-> "chr1", strand |-> "+", start |-> 10, end |-> 12 + MaxPos]) @@
    (2 :> [rname |-> "chr1", strand |-> "+", start |-> 10, end |-> 12 + MaxPos]) @@
    (3 :> [rname |-> "chr1", strand |-> "-", start |-> 10, end |-> 12 + MaxPos])

\* transcript_to_genome_pos: transcript coordinates run 5' to 3' along the
\* transcript, so downwards in the genome for a transcript on the - strand
transcript_to_genome_pos(tid, pos, genome_map) ==
    LET tx == genome_map[tid] IN
    IF tx.strand = "-"
    THEN <<tx.rname, tx.strand, tx.end - 1 - pos>>
    ELSE <<tx.rname, tx.strand, tx.start + pos>>

\* ------------------------------------------------------ alignment records
Scores == {0, 1}

\* an alignment of a read of 2 bases, as the reader yields it
Alignment(tid, pos, rev, score) ==
    [tid |-> tid, pos |-> pos, aend |-> pos + 2, is_reverse |-> rev,
     is_unmapped |-> FALSE, AS |-> score, is_paired |-> FALSE, mrnm |-> -1,
     tags |-> <<>>]

\* the record of a read the aligner could not place
UnmappedRead ==
    [tid |-> -1, pos |-> -1, aend |-> -1, is_reverse |-> FALSE,
     is_unmapped |-> TRUE, AS |-> 0, is_paired |-> FALSE, mrnm |-> -1,
     tags |-> <<>>]

\* the alignments of the fragment stream: all start at transcript position 0
Alignments ==
    {Alignment(t, 0, rev, s) : t \in Tids, rev \in BOOLEAN, s \in Scores}

\* the alignments of the counting specification: any position, one strand
PosAlignments ==
    {Alignment(t, p, FALSE, 0) : t \in Tids, p \in 0..MaxPos}

\* the placement of an alignment (reference and strand), as a number: the
\* alignments of one mate are different placements, each with its score
Place(a) == a.tid * 2 + (IF a.is_reverse THEN 1 ELSE 0)

\* ------------------------------------------------------------- the code
Min(a, b) == IF a < b THEN a ELSE b
Max(a, b) == IF a > b THEN a ELSE b

\* the locus key of one record (lines 30-32)
locus_key(r, genome_map) ==
    LET left == transcript_to_genome_pos(r.tid, r.pos, genome_map)
        right == transcript_to_genome_pos(r.tid, r.aend - 1, genome_map)
    IN <<left[1], left[3], right[3]>>

count_transcriptome_multimaps(reads, genome_map) ==
    IF \E i \in 1..Len(reads) : reads[i].is_unmapped
    THEN 0
    ELSE Cardinality({locus_key(reads[i], genome_map) : i \in 1..Len(reads)})

\* the keys of one mate's mapped records; key gives the key of a tid
KeysOf(reads, key) ==
    {key[reads[i].tid] : i \in {j \in 1..Len(reads) : ~reads[j].is_unmapped}}

\* one dictionary of map_reads_to_references: a key exists once a mapped
\* alignment was filed under it; a bucket keeps the order of each mate's list
bin_reads(pe_reads, key) ==
    [k \in KeysOf(pe_reads[1], key) \cup KeysOf(pe_reads[2], key) |->
        <<SelectSeq(pe_reads[1], LAMBDA r : ~r.is_unmapped /\ key[r.tid] = k),
          SelectSeq(pe_reads[2], LAMBDA r : ~r.is_unmapped /\ key[r.tid] = k)>>]

map_reads_to_references(pe_reads, tx_map) ==
    [refdict |-> bin_reads(pe_reads, [t \in DOMAIN tx_map |-> t]),
     clusterdict |-> bin_reads(pe_reads, [t \in DOMAIN tx_map |-> tx_map[t].cluster_id])]

\* copy_read: a new record with every field of r, the tags included
copy_read(r) ==
    [tid |-> r.tid, pos |-> r.pos, aend |-> r.aend, is_reverse |-> r.is_reverse,
     is_unmapped |-> r.is_unmapped, AS |-> r.AS, is_paired |-> r.is_paired,
     mrnm |-> r.mrnm, tags |-> r.tags]

\* pair_reads: fills in the mate fields of both records and appends the tags
pair_reads(r1, r2, tags) ==
    <<[r1 EXCEPT !.is_paired = TRUE, !.mrnm = r2.tid, !.tags = r1.tags \o tags],
      [r2 EXCEPT !.is_paired = TRUE, !.mrnm = r1.tid, !.tags = r2.tags \o tags]>>

\* select_best_scoring_pairs: the pairs whose summed alignment score is the
\* largest of the list, ties kept
select_best_scoring_pairs(pairs) ==
    LET score(p) == p[1].AS + p[2].AS
        best(p) == \A i \in 1..Len(pairs) : score(pairs[i]) <= score(p)
    IN  SelectSeq(pairs, best)

\* AlignedRead.opt: the value of the first tag of that name
opt(r, name) ==
    LET at == {i \in 1..Len(r.tags) : r.tags[i][1] = name}
    IN  IF at = {} THEN "KeyError"
        ELSE r.tags[CHOOSE i \in at : \A j \in at : i <= j][2]

\* the tag values a record carries under a name
TagValues(r, name) == {r.tags[i][2] : i \in {j \in 1..Len(r.tags) : r.tags[j][1] = name}}

\* classify_unpaired_reads: tags every record of the list in place; returns
\* the 5' and the 3' records and the list as it is after the call
classify_unpaired_reads(reads, library_type) ==
    LET tagged ==
            [i \in 1..Len(reads) |->
                [reads[i] EXCEPT !.tags = reads[i].tags \o
                    <<<<DISCORDANT_TAG_NAME, DISCORDANT_GENE>>,
                      <<ORIENTATION_TAG, get_orientation(reads[i], library_type)>>>>]]
        is5p(r) == get_orientation(r, library_type) = ORIENTATION_5P
    IN  [gene_hits_5p |-> SelectSeq(tagged, is5p),
         gene_hits_3p |-> SelectSeq(tagged, LAMBDA r : ~is5p(r)),
         reads |-> tagged]

\* the nested loops over two lists: every (r1, r2), r1 outermost
CrossProduct(l1, l2) ==
    [k \in 1..(Len(l1) * Len(l2)) |->
        <<l1[((k - 1) \div Len(l2)) + 1], l2[((k - 1) % Len(l2)) + 1]>>]

\* find_discordant_pairs: pairs of copies of one 5' and one 3' record of
\* different mates; pe_reads is the fragment as it is after the call
find_discordant_pairs(pe_reads, library_type) ==
    LET c1 == classify_unpaired_reads(pe_reads[1], library_type)
        c2 == classify_unpaired_reads(pe_reads[2], library_type)
        combos == CrossProduct(c1.gene_hits_5p, c2.gene_hits_3p) \o
                  CrossProduct(c1.gene_hits_3p, c2.gene_hits_5p)
    IN  [gene_pairs |->
            [k \in 1..Len(combos) |->
                pair_reads(copy_read(combos[k][1]), copy_read(combos[k][2]), <<>>)],
         pe_reads |-> <<c1.reads, c2.reads>>]

\* bucket_candidates leaving the loop after the first bucket with candidates
RECURSIVE first_bucket_candidates(_, _)
first_bucket_candidates(dict, order) ==
    IF order = <<>> THEN <<>>
    ELSE LET b == dict[Head(order)] IN
         IF Len(b[1]) = 0 \/ Len(b[2]) = 0
         THEN first_bucket_candidates(dict, Tail(order))
         ELSE CrossProduct(b[1], b[2])

\* the candidate pairs of the loop over a dictionary, in iteration order
RECURSIVE bucket_candidates(_, _)
bucket_candidates(dict, order) ==
    IF order = <<>> THEN <<>>
    ELSE LET b == dict[Head(order)] IN
         (IF Len(b[1]) = 0 \/ Len(b[2]) = 0 THEN <<>> ELSE CrossProduct(b[1], b[2]))
         \o bucket_candidates(dict, Tail(order))

\* strand_match with r1 compared to itself instead of to r2
strand_match_r1_twice(r1, r2, same_strand) ==
    same_strand = (r1.is_reverse = r1.is_reverse)

\* line 131 / 158
strand_match(r1, r2, same_strand) == same_strand = (r1.is_reverse = r2.is_reverse)

\* the candidates with the given strand_match, copied, paired and tagged
tagged_pairs(cands, same_strand, match, tag) ==
    LET sel == SelectSeq(cands, LAMBDA c : strand_match(c[1], c[2], same_strand) = match)
    IN  [k \in 1..Len(sel) |->
            pair_reads(copy_read(sel[k][1]), copy_read(sel[k][2]),
                       <<<<DISCORDANT_TAG_NAME, tag>>>>)]

\* search_clusters without the test of found_pair
search_clusters_always(found_pair) == TRUE

\* line 149: the cluster loop runs when the reference loop found no candidate
search_clusters(found_pair) == ~found_pair

\* return_unpaired with two new empty lists in place of the fragment
return_unpaired_fresh(pe_reads) ==
    [gene_pairs |-> <<>>, unpaired_reads |-> <<<<>>, <<>>>>]

\* line 205: no pair, the fragment itself is the residual
return_unpaired(pe_reads) == [gene_pairs |-> <<>>, unpaired_reads |-> pe_reads]

\* lines 178, 188, 199: pairs, no residual
return_pairs(pairs) == [gene_pairs |-> pairs, unpaired_reads |-> <<>>]

\* classify_read_pairs, with the iteration orders of the two dictionaries;
\* returns the pairs, the residual, the fragment as it is after the call and
\* whether the cluster loop was run
classify_read_pairs(pe_reads, max_isize, library_type, tx_map, ref_order, cluster_order) ==
    LET same_strand == same_strand_of(library_type)
        dicts == map_reads_to_references(pe_reads, tx_map)
        tx_cands == bucket_candidates(dicts.refdict, ref_order)
        found_pair_tx == Len(tx_cands) > 0
        cluster_cands == IF search_clusters(found_pair_tx)
                         THEN bucket_candidates(dicts.clusterdict, cluster_order)
                         ELSE <<>>
        concordant_tx_pairs == tagged_pairs(tx_cands, same_strand, TRUE, CONCORDANT_TX)
        discordant_tx_pairs == tagged_pairs(tx_cands, same_strand, FALSE, DISCORDANT_STRAND_TX)
        concordant_cluster_pairs ==
            tagged_pairs(cluster_cands, same_strand, TRUE, CONCORDANT_GENE)
        discordant_cluster_pairs ==
            tagged_pairs(cluster_cands, same_strand, FALSE, DISCORDANT_STRAND_GENE)
        ret(result, reads) ==
            [gene_pairs |-> result.gene_pairs, unpaired_reads |-> result.unpaired_reads,
             pe_reads |-> reads, searched_clusters |-> search_clusters(found_pair_tx)]
    IN  IF Len(concordant_tx_pairs) > 0
        THEN ret(return_pairs(concordant_tx_pairs), pe_reads)
        ELSE IF Len(concordant_cluster_pairs) > 0
        THEN ret(return_pairs(concordant_cluster_pairs), pe_reads)
        ELSE IF Len(discordant_tx_pairs) > 0
        THEN ret(return_pairs(discordant_tx_pairs), pe_reads)
        ELSE IF Len(discordant_cluster_pairs) > 0
        THEN ret(return_pairs(discordant_cluster_pairs), pe_reads)
        ELSE LET d == find_discordant_pairs(pe_reads, library_type) IN
             IF Len(d.gene_pairs) > 0
             THEN ret(return_pairs(select_best_scoring_pairs(d.gene_pairs)), d.pe_reads)
             ELSE ret(return_unpaired(d.pe_reads), d.pe_reads)

\* ------------------------------------------------------- files and writes
Channels == {"paired", "discordant", "unpaired", "multimap"}

\* what a call of write_pe_reads may be handed: an open output file, or the
\* two mate lists of a fragment
File(name) == [kind |-> "file", name |-> name]
Reads(pe) == [kind |-> "reads", val |-> pe]

\* write_pe_reads(pe_reads, bamfh): iterates its first argument and calls
\* write of its second.  Handed the lists and a file it appends every record,
\* mate 1 first.  Handed a file first, it iterates an output file: nothing is
\* ever appended (a list of records has no write), and the iteration either
\* yields nothing or raises.
write_pe_reads(pe_reads, bamfh, files) ==
    IF pe_reads.kind = "reads" /\ bamfh.kind = "file"
    THEN [files EXCEPT ![bamfh.name] = @ \o pe_reads.val[1] \o pe_reads.val[2]]
    ELSE files

write_pe_reads_outcomes(pe_reads, bamfh) ==
    IF pe_reads.kind = "reads" /\ bamfh.kind = "file"
    THEN {"ok"} ELSE {"ok", "raise"}

\* pair_channel with the two files exchanged
pair_channel_inverted(r1, r2) ==
    LET dr1 == opt(r1, DISCORDANT_TAG_NAME)
        dr2 == opt(r2, DISCORDANT_TAG_NAME)
    IN  IF dr1 # DISCORDANT_GENE \/ dr2 # DISCORDANT_GENE
        THEN "discordant" ELSE "paired"

\* lines 217-220: the file of a pair: the discordant file when both records
\* carry DISCORDANT_GENE, the paired file otherwise
pair_channel(r1, r2) ==
    LET dr1 == opt(r1, DISCORDANT_TAG_NAME)
        dr2 == opt(r2, DISCORDANT_TAG_NAME)
    IN  IF dr1 # DISCORDANT_GENE \/ dr2 # DISCORDANT_GENE
        THEN "paired" ELSE "discordant"

\* write_pairs with the second record of a discordant pair sent to the paired
\* file
RECURSIVE write_pairs_split(_, _)
write_pairs_split(pairs, files) ==
    IF pairs = <<>> THEN files
    ELSE LET r1 == Head(pairs)[1]
             r2 == Head(pairs)[2]
             one == [files EXCEPT ![pair_channel(r1, r2)] = @ \o <<r1>>]
         IN  write_pairs_split(Tail(pairs), [one EXCEPT !["paired"] = @ \o <<r2>>])

\* write_pairs: both records of each pair, in order, to the file of the pair
RECURSIVE write_pairs(_, _)
write_pairs(pairs, files) ==
    IF pairs = <<>> THEN files
    ELSE LET r1 == Head(pairs)[1]
             r2 == Head(pairs)[2]
         IN  write_pairs(Tail(pairs),
                         [files EXCEPT ![pair_channel(r1, r2)] = @ \o <<r1, r2>>])

\* ---------------------------------------------------------------- inputs
\* the lists parse_pe_reads can yield for one mate: no record, the record of
\* an unplaced read, or n alignments at different placements (listed in
\* ascending Place)
MateLists(n) ==
    IF n = 0 THEN {<<>>, <<UnmappedRead>>}
    ELSE {s \in [1..n -> Alignments] : \A i \in 1..(n - 1) : Place(s[i]) < Place(s[i + 1])}

\* the lists of the counting specification: up to n records, placed or not
ReadLists(n) == UNION {[1..k -> PosAlignments \cup {UnmappedRead}] : k \in 0..n}

\* the numbers of alignments of the two mates of a fragment
MateSizes ==
    {n \in (0..MaxAlignments) \X (0..MaxAlignments) : n[1] + n[2] <= MaxAlignments}

Perms(S) ==
    {s \in [1..Cardinality(S) -> S] : \A i, j \in 1..Cardinality(S) : s[i] = s[j] => i = j}

\* the orders in which a loop over a dictionary can visit its keys.  A bucket
\* without alignments of both mates is skipped wherever it comes, so the
\* orders are enumerated up to the position of those keys.
IterationOrders(dict) ==
    LET both == {k \in DOMAIN dict : Len(dict[k][1]) > 0 /\ Len(dict[k][2]) > 0}
        rest == CHOOSE s \in Perms(DOMAIN dict \ both) : TRUE
    IN  {s \o rest : s \in Perms(both)}

Ceilings == {1, 2}

\* ----------------------------------------------------------------- state
VARIABLES
    library_type,       \* configuration: the library type
    max_multihits,      \* configuration: the multimap ceiling
    pc,                 \* where the run is
    parsed,             \* the fragment as parse_pe_reads yielded it
    pe_reads,           \* the fragment's records as they are now
    mate_num_hits,      \* the two locus counts of the fragment
    invoked,            \* classify_read_pairs was called for the fragment
    searched_clusters,  \* the classifier ran its cluster loop
    gene_pairs,         \* the classifier's pairs
    unpaired_reads,     \* the classifier's residual
    written,            \* per file, the records appended for the fragment
    closed              \* the files closed so far

vars == <<library_type, max_multihits, pc, parsed, pe_reads, mate_num_hits,
          invoked, searched_clusters, gene_pairs, unpaired_reads, written, closed>>

NoFragment == <<<<>>, <<>>>>
NothingWritten == [c \in Channels |-> <<>>]

\* the locals of the loop body before the body has run
Fresh ==
    /\ mate_num_hits = <<0, 0>>
    /\ invoked = FALSE
    /\ searched_clusters = FALSE
    /\ gene_pairs = <<>>
    /\ unpaired_reads = <<>>
    /\ written = NothingWritten

Fresh_next ==
    /\ mate_num_hits' = <<0, 0>>
    /\ invoked' = FALSE
    /\ searched_clusters' = FALSE
    /\ gene_pairs' = <<>>
    /\ unpaired_reads' = <<>>
    /\ written' = NothingWritten

\* find_discordant_fragments up to the loop: files opened, tables built
Init ==
    /\ library_type \in LibraryTypes
    /\ max_multihits \in Ceilings
    /\ pc = "for"
    /\ parsed = NoFragment
    /\ pe_reads = NoFragment
    /\ Fresh
    /\ closed = {}

\* line 261: the reader yields the next fragment
parse_pe_reads_next ==
    /\ pc = "for"
    /\ \E n \in MateSizes :
        \E m1 \in MateLists(n[1]), m2 \in MateLists(n[2]) :
            /\ m1 # <<>> \/ m2 # <<>>
            /\ parsed' = <<m1, m2>>
            /\ pe_reads' = <<m1, m2>>
    /\ pc' = "body"
    /\ Fresh_next
    /\ UNCHANGED <<library_type, max_multihits, closed>>

\* lines 263-266
hits_of(pe) ==
    <<count_transcriptome_multimaps(pe[1], tid_tx_genome_map),
      count_transcriptome_multimaps(pe[2], tid_tx_genome_map)>>

\* lines 267-270: a mate without a locus
route_unmapped ==
    /\ pc = "body"
    /\ LET hits == hits_of(pe_reads) IN
        /\ Min(hits[1], hits[2]) = 0
        /\ mate_num_hits' = hits
        /\ written' = write_pe_reads(File("unpaired"), Reads(pe_reads), written)
        /\ \E o \in write_pe_reads_outcomes(File("unpaired"), Reads(pe_reads)) :
              pc' = IF o = "raise" THEN "aborted" ELSE "end"
    /\ UNCHANGED <<library_type, max_multihits, parsed, pe_reads, invoked,
                   searched_clusters, gene_pairs, unpaired_reads, closed>>

\* lines 271-274: a mate with more loci than the ceiling
route_multimap ==
    /\ pc = "body"
    /\ LET hits == hits_of(pe_reads) IN
        /\ Min(hits[1], hits[2]) # 0
        /\ Max(hits[1], hits[2]) > max_multihits
        /\ mate_num_hits' = hits
        /\ written' = write_pe_reads(File("multimap"), Reads(pe_reads), written)
        /\ \E o \in write_pe_reads_outcomes(File("multimap"), Reads(pe_reads)) :
              pc' = IF o = "raise" THEN "aborted" ELSE "end"
    /\ UNCHANGED <<library_type, max_multihits, parsed, pe_reads, invoked,
                   searched_clusters, gene_pairs, unpaired_reads, closed>>

\* lines 275-284: the classifier and the write of its result
route_classified ==
    /\ pc = "body"
    /\ LET hits == hits_of(pe_reads)
           dicts == map_reads_to_references(pe_reads, tid_tx_map)
       IN
        /\ Min(hits[1], hits[2]) # 0
        /\ Max(hits[1], hits[2]) <= max_multihits
        /\ mate_num_hits' = hits
        /\ \E ro \in IterationOrders(dicts.refdict),
              co \in IterationOrders(dicts.clusterdict) :
            LET res == classify_read_pairs(pe_reads, 0, library_type, tid_tx_map, ro, co)
            IN  /\ gene_pairs' = res.gene_pairs
                /\ unpaired_reads' = res.unpaired_reads
                /\ pe_reads' = res.pe_reads
                /\ searched_clusters' = res.searched_clusters
                /\ written' =
                     IF Len(res.gene_pairs) > 0
                     THEN write_pairs(res.gene_pairs, written)
                     ELSE write_pe_reads(Reads(res.unpaired_reads), File("unpaired"), written)
    /\ invoked' = TRUE
    /\ pc' = "end"
    /\ UNCHANGED <<library_type, max_multihits, parsed, closed>>

\* the end of the loop body: back to the for statement, the fragment is done
next_iteration ==
    /\ pc = "end"
    /\ pc' = "for"
    /\ parsed' = NoFragment
    /\ pe_reads' = NoFragment
    /\ Fresh_next
    /\ UNCHANGED <<library_type, max_multihits, closed>>

\* lines 285-290: the reader is exhausted; the files are closed
finish ==
    /\ pc = "for"
    /\ pc' = "done"
    /\ closed' = {"paired", "unpaired", "multimap", "input"}
    /\ UNCHANGED <<library_type, max_multihits, parsed, pe_reads, mate_num_hits,
                   invoked, searched_clusters, gene_pairs, unpaired_reads, written>>

Next ==
    \/ parse_pe_reads_next
    \/ route_unmapped
    \/ route_multimap
    \/ route_classified
    \/ next_iteration
    \/ finish

Spec == Init /\ [][Next]_vars

\* ---------------------------------------- the counter on its own (lines 22-33)
InitCount ==
    /\ library_type = "fr-unstranded"
    /\ max_multihits = 1
    /\ pc = "count"
    /\ \E reads \in ReadLists(MaxReads) :
        /\ parsed = <<reads, <<>>>>
        /\ pe_reads = <<reads, <<>>>>
    /\ Fresh
    /\ closed = {}

count_call ==
    /\ pc = "count"
    /\ mate_num_hits' =
         <<count_transcriptome_multimaps(pe_reads[1], tid_tx_genome_map), 0>>
    /\ pc' = "counted"
    /\ UNCHANGED <<library_type, max_multihits, parsed, pe_reads, invoked,
                   searched_clusters, gene_pairs, unpaired_reads, written, closed>>

SpecCount == InitCount /\ [][count_call]_vars

\* ------------------------------------------------------------------ claims
Range(seq) == {seq[i] : i \in 1..Len(seq)}

RECURSIVE PairRecords(_)
PairRecords(pairs) ==
    IF pairs = <<>> THEN <<>>
    ELSE <<Head(pairs)[1], Head(pairs)[2]>> \o PairRecords(Tail(pairs))

\* the loop body has run for the current fragment
BodyDone == pc \in {"end", "aborted"}

\* the classifier has returned for the current fragment
Classified == pc = "end" /\ invoked

\* both records of every returned pair carry exactly this discordance tag
AllPairsTagged(pairs, tag) ==
    \A i \in 1..Len(pairs) :
        /\ TagValues(pairs[i][1], DISCORDANT_TAG_NAME) = {tag}
        /\ TagValues(pairs[i][2], DISCORDANT_TAG_NAME) = {tag}

\* the (mate 1, mate 2) index pairs of a fragment on one reference
TxCandidates(pe) ==
    {c \in (1..Len(pe[1])) \X (1..Len(pe[2])) : pe[1][c[1]].tid = pe[2][c[2]].tid}

\* the (mate 1, mate 2) index pairs of a fragment in one transcript cluster
ClusterCandidates(pe) ==
    {c \in (1..Len(pe[1])) \X (1..Len(pe[2])) :
        tid_tx_map[pe[1][c[1]].tid].cluster_id = tid_tx_map[pe[2][c[2]].tid].cluster_id}

Compatible(pe, c, library_type_) ==
    same_strand_of(library_type_) = (pe[1][c[1]].is_reverse = pe[2][c[2]].is_reverse)

\* C1: a fragment with a mate whose locus count is 0 is written whole to the
\* unpaired file and to no other file, the classifier is not called, and the
\* run goes on with the next fragment
C1_UnmappedWrittenToUnpaired ==
    (BodyDone /\ (mate_num_hits[1] = 0 \/ mate_num_hits[2] = 0)) =>
        /\ written["unpaired"] = parsed[1] \o parsed[2]
        /\ written["paired"] = <<>>
        /\ written["discordant"] = <<>>
        /\ written["multimap"] = <<>>
        /\ ~invoked
        /\ pc = "end"

\* C2: a fragment with a mate whose locus count exceeds max_multihits is
\* written whole to the multimap file and to no other file.  The claim covers
\* every count of the other mate; it is stated here for the fragments whose
\* other mate has a locus too, which line 271 sends to the multimap branch.
C2_MultimapWrittenToMultimap ==
    (/\ BodyDone
     /\ Min(mate_num_hits[1], mate_num_hits[2]) > 0
     /\ Max(mate_num_hits[1], mate_num_hits[2]) > max_multihits) =>
        /\ written["multimap"] = parsed[1] \o parsed[2]
        /\ written["paired"] = <<>>
        /\ written["discordant"] = <<>>
        /\ written["unpaired"] = <<>>

\* the records of a fragment without their tags
Untagged(pe) ==
    [m \in 1..2 |-> [i \in 1..Len(pe[m]) |-> [pe[m][i] EXCEPT !.tags = <<>>]]]

\* C3: the classifier returns either pairs and no residual, or no pair and
\* the two mate lists of the fragment as the residual; never both, never
\* neither
C3_PairsXorResidual ==
    Classified =>
        \/ /\ Len(gene_pairs) > 0
           /\ unpaired_reads = <<>>
        \/ /\ gene_pairs = <<>>
           /\ unpaired_reads = pe_reads
           /\ Len(unpaired_reads) = 2
           /\ Len(unpaired_reads[1]) > 0 /\ Len(unpaired_reads[2]) > 0
           /\ Untagged(unpaired_reads) = Untagged(parsed)

C3_Witness ==
    /\ Classified
    /\ gene_pairs = <<>>
    /\ Len(unpaired_reads) = 2
    /\ Len(parsed[1]) + Len(parsed[2]) >= 3

\* C4: all the records written for one fragment are in a single file
C4_OneChannelPerFragment ==
    Cardinality({c \in Channels : written[c] # <<>>}) <= 1

C4_Witness ==
    /\ Classified
    /\ Len(gene_pairs) >= 2
    /\ \E c \in Channels : Len(written[c]) >= 4

\* a fragment whose mates share no reference and no cluster and have a 5'
\* record in one mate and a 3' record in the other
CrossGene(pe, library_type_) ==
    /\ TxCandidates(pe) = {}
    /\ ClusterCandidates(pe) = {}
    /\ \E i \in 1..Len(pe[1]), j \in 1..Len(pe[2]) :
          get_orientation(pe[1][i], library_type_) # get_orientation(pe[2][j], library_type_)

\* C5: for such a fragment the classifier returns pairs whose records all
\* carry DISCORDANT_GENE, and every pair is written to the discordant file and
\* none to the paired file; the discordant file only ever receives records
\* that carry DISCORDANT_GENE
C5_CrossGeneToDiscordant ==
    /\ (Classified /\ CrossGene(parsed, library_type)) =>
          /\ Len(gene_pairs) > 0
          /\ AllPairsTagged(gene_pairs, DISCORDANT_GENE)
          /\ written["discordant"] = PairRecords(gene_pairs)
          /\ written["paired"] = <<>>
    /\ \A i \in 1..Len(written["discordant"]) :
          opt(written["discordant"][i], DISCORDANT_TAG_NAME) = DISCORDANT_GENE

C5_Witness ==
    /\ Classified
    /\ CrossGene(parsed, library_type)
    /\ Len(written["discordant"]) >= 2
    /\ \E i \in 1..Len(parsed[1]), j \in 1..Len(parsed[2]) :
          get_orientation(parsed[1][i], library_type)
              = get_orientation(parsed[2][j], library_type)

\* C6: once the reference loop produced a candidate, the cluster loop is not
\* run and no pair with a cluster-level tag is returned; when every candidate
\* of the reference loop is strand-incompatible the pairs returned are
\* DISCORDANT_STRAND_TX pairs
C6_ReferenceStageShadowsClusters ==
    (Classified /\ TxCandidates(parsed) # {}) =>
        /\ ~searched_clusters
        /\ \A i \in 1..Len(gene_pairs), m \in 1..2 :
              TagValues(gene_pairs[i][m], DISCORDANT_TAG_NAME)
                  \cap {CONCORDANT_GENE, DISCORDANT_STRAND_GENE} = {}
        /\ (\A c \in TxCandidates(parsed) : ~Compatible(parsed, c, library_type)) =>
              /\ Len(gene_pairs) > 0
              /\ AllPairsTagged(gene_pairs, DISCORDANT_STRAND_TX)

\* a fragment whose reference-level candidates are all strand-incompatible
\* although a compatible cluster-level pairing exists
C6_Witness ==
    /\ Classified
    /\ TxCandidates(parsed) # {}
    /\ \A c \in TxCandidates(parsed) : ~Compatible(parsed, c, library_type)
    /\ \E c \in ClusterCandidates(parsed) : Compatible(parsed, c, library_type)
    /\ AllPairsTagged(gene_pairs, DISCORDANT_STRAND_TX)
    /\ Len(gene_pairs) > 0

\* the fragment with the strand bit of the chosen mates negated
FlipStrands(pe, mates) ==
    [m \in 1..2 |->
        [i \in 1..Len(pe[m]) |->
            IF m \in mates THEN [pe[m][i] EXCEPT !.is_reverse = ~@] ELSE pe[m][i]]]

\* the tag the classifier gives the pair of a fragment of one candidate pair
PairTag(pe, library_type_) ==
    LET dicts == map_reads_to_references(pe, tid_tx_map)
        ro == CHOOSE o \in IterationOrders(dicts.refdict) : TRUE
        co == CHOOSE o \in IterationOrders(dicts.clusterdict) : TRUE
        res == classify_read_pairs(pe, 0, library_type_, tid_tx_map, ro, co)
    IN  opt(res.gene_pairs[1][1], DISCORDANT_TAG_NAME)

\* the classifier has returned for a fragment that is one same-reference
\* candidate pair, under a library type that expects the mates on one strand
OneTxCandidate ==
    /\ Classified
    /\ same_strand_of(library_type)
    /\ Len(parsed[1]) = 1 /\ Len(parsed[2]) = 1
    /\ parsed[1][1].tid = parsed[2][1].tid

Other(tag) == IF tag = CONCORDANT_TX THEN DISCORDANT_STRAND_TX ELSE CONCORDANT_TX

\* C7 as stated: negating the strand bit of both mates flips the tag of the
\* pair between CONCORDANT_TX and DISCORDANT_STRAND_TX
C7_FlipBothFlipsTag ==
    OneTxCandidate =>
        /\ opt(gene_pairs[1][1], DISCORDANT_TAG_NAME) \in {CONCORDANT_TX, DISCORDANT_STRAND_TX}
        /\ PairTag(FlipStrands(parsed, {1, 2}), library_type)
              = Other(opt(gene_pairs[1][1], DISCORDANT_TAG_NAME))

\* C7 amended: negating the strand bit of exactly one mate flips the tag of
\* the pair between CONCORDANT_TX and DISCORDANT_STRAND_TX; negating the
\* strand bit of both mates leaves the tag as it is
C7_FlipOneFlipsTag ==
    OneTxCandidate =>
        LET tag == opt(gene_pairs[1][1], DISCORDANT_TAG_NAME) IN
        /\ tag \in {CONCORDANT_TX, DISCORDANT_STRAND_TX}
        /\ Len(gene_pairs) = 1
        /\ AllPairsTagged(gene_pairs, tag)
        /\ PairTag(FlipStrands(parsed, {1}), library_type) = Other(tag)
        /\ PairTag(FlipStrands(parsed, {2}), library_type) = Other(tag)
        /\ PairTag(FlipStrands(parsed, {1, 2}), library_type) = tag

C7_Witness ==
    /\ OneTxCandidate
    /\ parsed[1][1].is_reverse /\ ~parsed[2][1].is_reverse
    /\ AllPairsTagged(gene_pairs, DISCORDANT_STRAND_TX)

\* the genomic interval an alignment projects to: chromosome, leftmost and
\* rightmost genomic position
GenomicInterval(r) ==
    LET a == transcript_to_genome_pos(r.tid, r.pos, tid_tx_genome_map)
        b == transcript_to_genome_pos(r.tid, r.aend - 1, tid_tx_genome_map)
    IN  <<a[1], Min(a[3], b[3]), Max(a[3], b[3])>>

\* C8: the count is the number of different genomic intervals of the mate's
\* alignments, and 0 exactly when the list is empty or the mate is unmapped
C8_CountsDistinctIntervals ==
    pc = "counted" =>
        LET reads == parsed[1] IN
        mate_num_hits[1] =
            IF reads = <<>> \/ \E i \in 1..Len(reads) : reads[i].is_unmapped
            THEN 0
            ELSE Cardinality({GenomicInterval(reads[i]) : i \in 1..Len(reads)})

\* C9: when the classifier returns no pair, the records of the fragment carry
\* the tags they had before the call, and so do the records written to the
\* unpaired file
C9_ResidualUntagged ==
    (Classified /\ gene_pairs = <<>>) =>
        /\ pe_reads = parsed
        /\ unpaired_reads = parsed
        /\ \A i \in 1..Len(written["unpaired"]) :
              TagValues(written["unpaired"][i], DISCORDANT_TAG_NAME) = {}

\* the pairs C10 expects: of the first stage with a candidate, all the
\* compatible candidates if there is one, else all the candidates
ExpectedPairs(pe, library_type_) ==
    LET tx == TxCandidates(pe)
        stage == IF tx # {} THEN tx ELSE ClusterCandidates(pe)
        good == {c \in stage : Compatible(pe, c, library_type_)}
        tag == IF tx # {}
               THEN (IF good # {} THEN CONCORDANT_TX ELSE DISCORDANT_STRAND_TX)
               ELSE (IF good # {} THEN CONCORDANT_GENE ELSE DISCORDANT_STRAND_GENE)
    IN  {pair_reads(copy_read(pe[1][c[1]]), copy_read(pe[2][c[2]]),
                    <<<<DISCORDANT_TAG_NAME, tag>>>>) :
            c \in (IF good # {} THEN good ELSE stage)}

\* C10: when the reference loop, or else the cluster loop, produced a
\* candidate, the pairs returned are all its compatible pairs over all the
\* buckets if there is one, else all its pairs, in whatever order the buckets
\* were visited
C10_AllPairsOfTheStage ==
    (Classified /\ (TxCandidates(parsed) # {} \/ ClusterCandidates(parsed) # {})) =>
        /\ Range(gene_pairs) = ExpectedPairs(parsed, library_type)
        /\ Len(gene_pairs) = Cardinality(ExpectedPairs(parsed, library_type))

\* compatible pairs from two reference buckets
C10_Witness ==
    /\ Classified
    /\ \E i, j \in 1..Len(gene_pairs) : gene_pairs[i][1].tid # gene_pairs[j][1].tid
    /\ AllPairsTagged(gene_pairs, CONCORDANT_TX)

====
